---- MODULE Spec2Model ----
(***************************************************************************)
(* Model of convlab/modules/util/multiwoz/dbquery.py: the domain store     *)
(* `dbs` loaded at import time and the function `query(domain,             *)
(* constraints, ignore_open)`.                                             *)
(*                                                                         *)
(* Strings are TLA+ strings handled character by character (Len, SubSeq    *)
(* and \o on strings), so that lower(), strip(), split(':'), int() and the *)
(* Porter stemmer are computed, not assumed.                               *)
(***************************************************************************)
EXTENDS Integers, Sequences, FiniteSets, TLC

VARIABLES dbs, pc, args, found, i, j, result

vars == <<dbs, pc, args, found, i, j, result>>

(***************************************************************************)
(* Bounds of the model.                                                    *)
(***************************************************************************)
\* Longest constraint list a caller passes.
MaxConstraints == 2
\* Number of callers that can be inside query at the same time.
NumCallers == 2
\* Number of distinct outcomes of the random generator explored per taxi call.
NumSeeds == 6

Callers == 1..NumCallers
\* The caller of the sequential specification.
SeqCallers == {c \in Callers : \A d \in Callers : c <= d}

(***************************************************************************)
(* Python string primitives.                                               *)
(***************************************************************************)
CharAt(s, n) == SubSeq(s, n, n)

Rest(s) == SubSeq(s, 2, Len(s))

\* str.lower() on one character.
LowerChar(c) ==
  CASE c = "A" -> "a" [] c = "B" -> "b" [] c = "C" -> "c" [] c = "D" -> "d"
    [] c = "E" -> "e" [] c = "F" -> "f" [] c = "G" -> "g" [] c = "H" -> "h"
    [] c = "I" -> "i" [] c = "J" -> "j" [] c = "K" -> "k" [] c = "L" -> "l"
    [] c = "M" -> "m" [] c = "N" -> "n" [] c = "O" -> "o" [] c = "P" -> "p"
    [] c = "Q" -> "q" [] c = "R" -> "r" [] c = "S" -> "s" [] c = "T" -> "t"
    [] c = "U" -> "u" [] c = "V" -> "v" [] c = "W" -> "w" [] c = "X" -> "x"
    [] c = "Y" -> "y" [] c = "Z" -> "z" [] OTHER -> c

RECURSIVE Lower(_)
\* str.lower()
Lower(s) == IF s = "" THEN "" ELSE LowerChar(CharAt(s, 1)) \o Lower(Rest(s))

\* The characters str.strip() and int() treat as whitespace.
Whitespace == {" ", "\t", "\n", "\r", "\f"}

RECURSIVE LStrip(_)
LStrip(s) ==
  IF s # "" /\ CharAt(s, 1) \in Whitespace THEN LStrip(Rest(s)) ELSE s

RECURSIVE RStrip(_)
RStrip(s) ==
  IF s # "" /\ CharAt(s, Len(s)) \in Whitespace
  THEN RStrip(SubSeq(s, 1, Len(s) - 1))
  ELSE s

\* str.strip()
Strip(s) == RStrip(LStrip(s))

RECURSIVE Split(_, _)
\* str.split(sep) for a one-character separator: the fields between the
\* separators, empty fields kept.
Split(s, sep) ==
  IF \E n \in 1..Len(s) : CharAt(s, n) = sep
  THEN LET n == CHOOSE n \in 1..Len(s) :
                  /\ CharAt(s, n) = sep
                  /\ \A m \in 1..(n - 1) : CharAt(s, m) # sep
       IN <<SubSeq(s, 1, n - 1)>> \o Split(SubSeq(s, n + 1, Len(s)), sep)
  ELSE <<s>>

Digits == {"0", "1", "2", "3", "4", "5", "6", "7", "8", "9"}

DigitVal(c) ==
  CASE c = "0" -> 0 [] c = "1" -> 1 [] c = "2" -> 2 [] c = "3" -> 3
    [] c = "4" -> 4 [] c = "5" -> 5 [] c = "6" -> 6 [] c = "7" -> 7
    [] c = "8" -> 8 [] c = "9" -> 9

\* The outcome of an expression that can raise: a value, or an exception.
Ok(v) == [ok |-> TRUE, val |-> v]
Raise == [ok |-> FALSE, val |-> 0]

\* The literal int() accepts once whitespace and sign are removed: decimal
\* digits, single underscores allowed between digits.
IsDecimal(s) ==
  /\ s # ""
  /\ CharAt(s, 1) \in Digits
  /\ CharAt(s, Len(s)) \in Digits
  /\ \A n \in 1..Len(s) : CharAt(s, n) \in Digits \cup {"_"}
  /\ \A n \in 1..(Len(s) - 1) : ~(CharAt(s, n) = "_" /\ CharAt(s, n + 1) = "_")

RECURSIVE DecimalVal(_, _)
DecimalVal(s, acc) ==
  IF s = "" THEN acc
  ELSE IF CharAt(s, 1) = "_" THEN DecimalVal(Rest(s), acc)
  ELSE DecimalVal(Rest(s), acc * 10 + DigitVal(CharAt(s, 1)))

\* int(s) for a string s: ValueError unless s is an optionally signed decimal
\* literal, possibly surrounded by whitespace.
ParseInt(s) ==
  LET t == Strip(s)
      signed == t # "" /\ CharAt(t, 1) \in {"+", "-"}
      body == IF signed THEN Rest(t) ELSE t
  IN IF ~IsDecimal(body) THEN Raise
     ELSE IF signed /\ CharAt(t, 1) = "-" THEN Ok(0 - DecimalVal(body, 0))
     ELSE Ok(DecimalVal(body, 0))

\* int(s.split(':')[0]) * 100 + int(s.split(':')[1])
\* IndexError without a colon, ValueError when a part is no integer.
TimeCode(s) ==
  LET parts == Split(s, ":")
  IN IF Len(parts) < 2 THEN Raise
     ELSE LET h == ParseInt(parts[1])
              m == ParseInt(parts[2])
          IN IF h.ok /\ m.ok THEN Ok(h.val * 100 + m.val) ELSE Raise

(***************************************************************************)
(* nltk.stem.porter.PorterStemmer.stem in its default mode (the stemmer   *)
(* object of line 8): Porter's algorithm with NLTK's extensions.           *)
(***************************************************************************)
EndsWith(w, suf) ==
  Len(w) >= Len(suf) /\ SubSeq(w, Len(w) - Len(suf) + 1, Len(w)) = suf

\* The word without its last n characters.
DropLast(w, n) == SubSeq(w, 1, Len(w) - n)

Vowels == {"a", "e", "i", "o", "u"}

RECURSIVE IsConsonant(_, _)
\* A letter other than a, e, i, o, u, and other than a y that follows a
\* consonant.
IsConsonant(w, n) ==
  IF CharAt(w, n) \in Vowels THEN FALSE
  ELSE IF CharAt(w, n) = "y"
       THEN IF n = 1 THEN TRUE ELSE ~IsConsonant(w, n - 1)
       ELSE TRUE

\* m of [C](VC)^m[V]: the number of vowel-consonant sequences of the stem.
Measure(w) ==
  Cardinality({n \in 1..(Len(w) - 1) :
                 ~IsConsonant(w, n) /\ IsConsonant(w, n + 1)})

ContainsVowel(w) == \E n \in 1..Len(w) : ~IsConsonant(w, n)

EndsDoubleConsonant(w) ==
  /\ Len(w) >= 2
  /\ CharAt(w, Len(w)) = CharAt(w, Len(w) - 1)
  /\ IsConsonant(w, Len(w))

\* *o: the stem ends consonant-vowel-consonant, the last not w, x or y
\* (NLTK: or is a vowel and a consonant).
EndsCVC(w) ==
  \/ /\ Len(w) >= 3
     /\ IsConsonant(w, Len(w) - 2)
     /\ ~IsConsonant(w, Len(w) - 1)
     /\ IsConsonant(w, Len(w))
     /\ CharAt(w, Len(w)) \notin {"w", "x", "y"}
  \/ /\ Len(w) = 2
     /\ ~IsConsonant(w, 1)
     /\ IsConsonant(w, 2)

\* The condition of a rule on the stem that is left without the suffix.
RuleHolds(cond, stem) ==
  CASE cond = "always" -> TRUE
    [] cond = "m>0" -> Measure(stem) > 0
    [] cond = "m>1" -> Measure(stem) > 1
    [] cond = "ion" -> /\ Measure(stem) > 1
                       /\ stem # ""
                       /\ CharAt(stem, Len(stem)) \in {"s", "t"}
    [] cond = "y" -> Len(stem) > 1 /\ IsConsonant(stem, Len(stem))
    [] cond = "logi" -> Measure(stem \o "l") > 0
    [] cond = "ll" -> Measure(stem \o "l") > 1

RECURSIVE ApplyRuleList(_, _)
\* The first rule <<suffix, replacement, condition>> whose suffix ends the word
\* decides: it rewrites the word when its condition holds and leaves the
\* word as it is otherwise; no later rule is tried.
ApplyRuleList(word, rules) ==
  IF rules = <<>> THEN word
  ELSE LET rule == Head(rules)
       IN IF EndsWith(word, rule[1])
          THEN LET stem == DropLast(word, Len(rule[1]))
               IN IF RuleHolds(rule[3], stem) THEN stem \o rule[2] ELSE word
          ELSE ApplyRuleList(word, Tail(rules))

Step1a(word) ==
  IF EndsWith(word, "ies") /\ Len(word) = 4
  THEN DropLast(word, 3) \o "ie"
  ELSE ApplyRuleList(word, << <<"sses", "ss", "always">>,
                              <<"ies", "i", "always">>,
                              <<"ss", "ss", "always">>,
                              <<"s", "", "always">> >>)

\* The clean-up of step 1b after -ed or -ing was removed.
Step1bFix(stem) ==
  IF EndsWith(stem, "at") \/ EndsWith(stem, "bl") \/ EndsWith(stem, "iz")
  THEN stem \o "e"
  ELSE IF EndsDoubleConsonant(stem)
  THEN IF CharAt(stem, Len(stem)) \notin {"l", "s", "z"}
       THEN DropLast(stem, 1)
       ELSE stem
  ELSE IF Measure(stem) = 1 /\ EndsCVC(stem) THEN stem \o "e"
  ELSE stem

Step1b(word) ==
  IF EndsWith(word, "ied")
  THEN IF Len(word) = 4 THEN DropLast(word, 3) \o "ie"
       ELSE DropLast(word, 3) \o "i"
  ELSE IF EndsWith(word, "eed")
  THEN IF Measure(DropLast(word, 3)) > 0 THEN DropLast(word, 1) ELSE word
  ELSE IF EndsWith(word, "ed") /\ ContainsVowel(DropLast(word, 2))
  THEN Step1bFix(DropLast(word, 2))
  ELSE IF EndsWith(word, "ing") /\ ContainsVowel(DropLast(word, 3))
  THEN Step1bFix(DropLast(word, 3))
  ELSE word

Step1c(word) == ApplyRuleList(word, << <<"y", "i", "y">> >>)

Step2Rules ==
  << <<"ational", "ate", "m>0">>, <<"tional", "tion", "m>0">>,
     <<"enci", "ence", "m>0">>, <<"anci", "ance", "m>0">>,
     <<"izer", "ize", "m>0">>, <<"bli", "ble", "m>0">>,
     <<"alli", "al", "m>0">>, <<"entli", "ent", "m>0">>,
     <<"eli", "e", "m>0">>, <<"ousli", "ous", "m>0">>,
     <<"ization", "ize", "m>0">>, <<"ation", "ate", "m>0">>,
     <<"ator", "ate", "m>0">>, <<"alism", "al", "m>0">>,
     <<"iveness", "ive", "m>0">>, <<"fulness", "ful", "m>0">>,
     <<"ousness", "ous", "m>0">>, <<"aliti", "al", "m>0">>,
     <<"iviti", "ive", "m>0">>, <<"biliti", "ble", "m>0">>,
     <<"fulli", "ful", "m>0">>, <<"logi", "log", "logi">> >>

RECURSIVE Step2(_)
Step2(word) ==
  IF EndsWith(word, "alli") /\ Measure(DropLast(word, 4)) > 0
  THEN Step2(DropLast(word, 4) \o "al")
  ELSE ApplyRuleList(word, Step2Rules)

Step3(word) ==
  ApplyRuleList(word, << <<"icate", "ic", "m>0">>, <<"ative", "", "m>0">>,
                         <<"alize", "al", "m>0">>, <<"iciti", "ic", "m>0">>,
                         <<"ical", "ic", "m>0">>, <<"ful", "", "m>0">>,
                         <<"ness", "", "m>0">> >>)

Step4(word) ==
  ApplyRuleList(word, << <<"al", "", "m>1">>, <<"ance", "", "m>1">>,
                         <<"ence", "", "m>1">>, <<"er", "", "m>1">>,
                         <<"ic", "", "m>1">>, <<"able", "", "m>1">>,
                         <<"ible", "", "m>1">>, <<"ant", "", "m>1">>,
                         <<"ement", "", "m>1">>, <<"ment", "", "m>1">>,
                         <<"ent", "", "m>1">>, <<"ion", "", "ion">>,
                         <<"ou", "", "m>1">>, <<"ism", "", "m>1">>,
                         <<"ate", "", "m>1">>, <<"iti", "", "m>1">>,
                         <<"ous", "", "m>1">>, <<"ive", "", "m>1">>,
                         <<"ize", "", "m>1">> >>)

Step5a(word) ==
  IF EndsWith(word, "e")
  THEN LET stem == DropLast(word, 1)
       IN IF Measure(stem) > 1 THEN stem
          ELSE IF Measure(stem) = 1 /\ ~EndsCVC(stem) THEN stem
          ELSE word
  ELSE word

Step5b(word) == ApplyRuleList(word, << <<"ll", "l", "ll">> >>)

\* The irregular forms NLTK stems by table.
IrregularForms ==
  ("sky" :> "sky") @@ ("skies" :> "sky") @@ ("dying" :> "die")
  @@ ("lying" :> "lie") @@ ("tying" :> "tie") @@ ("news" :> "news")
  @@ ("innings" :> "inning") @@ ("inning" :> "inning")
  @@ ("outings" :> "outing") @@ ("outing" :> "outing")
  @@ ("cannings" :> "canning") @@ ("canning" :> "canning")
  @@ ("howe" :> "howe") @@ ("proceed" :> "proceed")
  @@ ("exceed" :> "exceed") @@ ("succeed" :> "succeed")

\* stemmer.stem(word)
stem(word) ==
  IF word \in DOMAIN IrregularForms THEN IrregularForms[word]
  ELSE IF Len(word) <= 2 THEN Lower(word)
  ELSE Step5b(Step5a(Step4(Step3(Step2(Step1c(Step1b(Step1a(Lower(word)))))))))

(***************************************************************************)
(* The domain store (lines 10-16).  The data files are not part of the     *)
(* program; LoadedStore is the content json.load gives for a small data    *)
(* set with the shape of the MultiWOZ files.  A field value is a string or *)
(* a value of another JSON type (a list, an object, a number).             *)
(***************************************************************************)
domains ==
  <<"restaurant", "hotel", "attraction", "train", "hospital", "taxi", "police">>

Domains == {domains[n] : n \in 1..Len(domains)}

Str(s) == [type |-> "str", val |-> s]
NonStr(t) == [type |-> t, val |-> ""]

TrainRecords ==
  << ("leaveAt" :> Str("08:00")) @@ ("arriveBy" :> Str("08:50"))
       @@ ("destination" :> Str("cambridge")) @@ ("departure" :> Str("ely")),
     ("leaveAt" :> Str("09:30")) @@ ("arriveBy" :> Str("10:05"))
       @@ ("destination" :> Str("cambridge ")) @@ ("departure" :> Str("ely")),
     ("leaveAt" :> Str("08:30")) @@ ("arriveBy" :> Str("09:00"))
       @@ ("destination" :> Str("ely")) @@ ("departure" :> Str("cambridge")),
     ("leaveAt" :> Str("noon")) @@ ("destination" :> Str("Cambridge"))
       @@ ("departure" :> Str("ely")) >>

RestaurantRecords ==
  << ("name" :> Str("nandos")) @@ ("area" :> Str("south"))
       @@ ("food" :> Str("portuguese")) @@ ("location" :> NonStr("list")),
     ("name" :> Str(" pizza hut")) @@ ("area" :> Str("south "))
       @@ ("food" :> Str("italian")),
     ("name" :> Str("Nandos")) @@ ("area" :> Str("north"))
       @@ ("food" :> Str("portuguese")) >>

HotelRecords ==
  << ("name" :> Str("acorn")) @@ ("area" :> Str("north"))
       @@ ("price" :> NonStr("dict")),
     ("name" :> Str("nandos")) @@ ("area" :> Str("south"))
       @@ ("stars" :> Str("4")) >>

AttractionRecords ==
  << ("name" :> Str("nandos")) @@ ("area" :> Str(" south"))
       @@ ("location" :> Str("centre")),
     ("name" :> Str("museum")) @@ ("area" :> Str("north")) >>

HospitalRecords ==
  << ("department" :> Str("surgery")) @@ ("name" :> Str("ward"))
       @@ ("id" :> NonStr("int")),
     ("department" :> Str("oncology")) @@ ("name" :> Str("nandos")) >>

PoliceRecords ==
  << ("name" :> Str("parkside")) @@ ("area" :> Str("north"))
       @@ ("id" :> NonStr("int")) >>

TaxiOptions ==
  [taxi_colors |-> <<"black", "white", "red">>,
   taxi_types |-> <<"toyota", "skoda">>]

\* dbs after the loading loop
LoadedStore ==
  [d \in Domains |->
     CASE d = "restaurant" -> RestaurantRecords
       [] d = "hotel" -> HotelRecords
       [] d = "attraction" -> AttractionRecords
       [] d = "train" -> TrainRecords
       [] d = "hospital" -> HospitalRecords
       [] d = "taxi" -> TaxiOptions
       [] d = "police" -> PoliceRecords]

(***************************************************************************)
(* The arguments callers pass: constraint lists over a pool of (key,       *)
(* value) pairs, up to MaxConstraints long.                                *)
(***************************************************************************)
ConstraintPool ==
  { <<"leaveAt", "08:30">>, <<"leaveAt", "soon">>, <<"leaveAt", "dontcare">>,
    <<"arriveBy", "09:00">>,
    <<"destination", "cambridge">>, <<"destination", "don't care">>,
    <<"departure", " ely">>,
    <<"area", "south">>, <<"area", "not mentioned">>,
    <<"Area", "north">>, <<"areas", "north">>,
    <<"name", "nandos">>, <<"name", "">>, <<"name", "do n't care">>,
    <<"food", "dont care">>,
    <<"location", "centre">>, <<"people", "2">> }

ConstraintLists ==
  UNION {[1..n -> ConstraintPool] : n \in 0..MaxConstraints}

(***************************************************************************)
(* A list object: the store's own list of a domain, or a list of its own.  *)
(***************************************************************************)
LocalList(items) == [kind |-> "local", dom |-> "", items |-> items]
StoreList(d) == [kind |-> "store", dom |-> d, items |-> <<>>]

\* The elements of a list object, in the store as it is now.
Items(list) == IF list.kind = "store" THEN dbs[list.dom] ELSE list.items

(***************************************************************************)
(* query: the body of the inner loop (lines 33-58).                        *)
(***************************************************************************)
\* Faulty variant of DontCare: the token "not mentioned" is forgotten.
DontCareWithoutNotMentioned ==
  {"", "dont care", "don't care", "dontcare", "do n't care"}

\* The values line 34 compares val with.
DontCare ==
  {"", "dont care", "not mentioned", "don't care", "dontcare", "do n't care"}

\* Faulty variant of IgnoreOpenKeys: departure is forgotten.
IgnoreOpenKeysDestinationOnly == {"destination"}

\* The keys line 52 skips when ignore_open is set.
IgnoreOpenKeys == {"destination", "departure"}

\* stemmer.stem(key): the stems of the keys callers pass are computed once.
PoolStems == [k \in {c[1] : c \in ConstraintPool} |-> stem(k)]

StemOf(key) == IF key \in DOMAIN PoolStems THEN PoolStems[key] ELSE stem(key)

\* The field names of the store's records and the keys callers pass.
KnownNames ==
  {c[1] : c \in ConstraintPool}
    \cup UNION {UNION {DOMAIN LoadedStore[d][n] :
                        n \in 1..Len(LoadedStore[d])} :
                 d \in Domains \ {"taxi"}}

\* str.lower() of those names, computed once.
LoweredNames == [s \in KnownNames |-> Lower(s)]

\* name.lower()
LowerOf(name) ==
  IF name \in DOMAIN LoweredNames THEN LoweredNames[name] ELSE Lower(name)

\* record_keys of line 38
RecordKeys(record) == {LowerOf(k) : k \in DOMAIN record}

\* The time code of record[name]: KeyError without the field, AttributeError
\* when the value has no split(), else as for a string.
FieldTimeCode(record, name) ==
  IF name \notin DOMAIN record THEN Raise
  ELSE IF record[name].type # "str" THEN Raise
  ELSE TimeCode(record[name].val)

\* record[key].strip(): KeyError without the field, AttributeError when the
\* value has no strip().
FieldStripped(record, key) ==
  IF key \notin DOMAIN record THEN Raise
  ELSE IF record[key].type # "str" THEN Raise
  ELSE Ok(Strip(record[key].val))

\* Faulty variant of LeaveAtFails: a record leaving exactly at the time is dropped.
LeaveAtFailsOnEqual(val1, val2) == val1 >= val2

\* The test of line 44 that drops the record.
LeaveAtFails(val1, val2) == val1 > val2

\* Faulty variant of ArriveByFails: a record arriving exactly at the time is dropped.
ArriveByFailsOnEqual(val1, val2) == val1 <= val2

\* The test of line 49 that drops the record.
ArriveByFails(val1, val2) == val1 < val2

\* The test of line 55 that drops the record.
ValueDiffers(val, field) == Strip(val) # field

\* Faulty variant of EvalConstraint: the except clause drops the record
\* (break) instead of going on to the next constraint.
EvalConstraintExceptBreaks(record, key, val, ignore_open) ==
  IF val \in DontCare THEN "continue"
  ELSE IF /\ LowerOf(key) \notin RecordKeys(record)
          /\ StemOf(key) \notin RecordKeys(record)
  THEN "continue"
  ELSE IF key = "leaveAt"
  THEN LET val1 == TimeCode(val)
           val2 == FieldTimeCode(record, "leaveAt")
       IN IF ~val1.ok \/ ~val2.ok THEN "break"
          ELSE IF LeaveAtFails(val1.val, val2.val) THEN "break"
          ELSE "continue"
  ELSE IF key = "arriveBy"
  THEN LET val1 == TimeCode(val)
           val2 == FieldTimeCode(record, "arriveBy")
       IN IF ~val1.ok \/ ~val2.ok THEN "break"
          ELSE IF ArriveByFails(val1.val, val2.val) THEN "break"
          ELSE "continue"
  ELSE IF ignore_open /\ key \in IgnoreOpenKeys THEN "continue"
  ELSE LET field == FieldStripped(record, key)
       IN IF ~field.ok THEN "break"
          ELSE IF ValueDiffers(val, field.val) THEN "break"
          ELSE "continue"

\* One pass of the inner loop for the constraint (key, val): "break" when the
\* record is dropped, "continue" when the loop goes on to the next
\* constraint (pass, continue, and every exception the try swallows).
EvalConstraint(record, key, val, ignore_open) ==
  IF val \in DontCare THEN "continue"
  ELSE IF /\ LowerOf(key) \notin RecordKeys(record)
          /\ StemOf(key) \notin RecordKeys(record)
  THEN "continue"
  ELSE IF key = "leaveAt"
  THEN LET val1 == TimeCode(val)
           val2 == FieldTimeCode(record, "leaveAt")
       IN IF ~val1.ok \/ ~val2.ok THEN "continue"
          ELSE IF LeaveAtFails(val1.val, val2.val) THEN "break"
          ELSE "continue"
  ELSE IF key = "arriveBy"
  THEN LET val1 == TimeCode(val)
           val2 == FieldTimeCode(record, "arriveBy")
       IN IF ~val1.ok \/ ~val2.ok THEN "continue"
          ELSE IF ArriveByFails(val1.val, val2.val) THEN "break"
          ELSE "continue"
  ELSE IF ignore_open /\ key \in IgnoreOpenKeys THEN "continue"
  ELSE LET field == FieldStripped(record, key)
       IN IF ~field.ok THEN "continue"
          ELSE IF ValueDiffers(val, field.val) THEN "break"
          ELSE "continue"

(***************************************************************************)
(* query: the special domains (lines 22-29).                               *)
(***************************************************************************)
\* Faulty variant of WholeDomains: police is filtered like any other domain.
WholeDomainsHospitalOnly == {"hospital"}

\* The domains whose whole collection is returned.
WholeDomains == {"police", "hospital"}

\* len of taxi_phone: range(10)
PhoneLength == 10

\* The number of draws one taxi call makes of the random generator.
DrawsPerCall == PhoneLength + 2

\* The raw outcomes of the generator during one call: one sequence of
\* naturals per seed.
RandomStream(seed) == [k \in 1..DrawsPerCall |-> seed + 7 * k]

RandomStreams == {RandomStream(seed) : seed \in 0..(NumSeeds - 1)}

\* random.choice(seq) on the raw outcome r
Choice(seq, r) == seq[(r % Len(seq)) + 1]

\* Faulty variant of RandInt: the digits start at 0, as with randint(0, 9).
RandIntFromZero(a, b, r) == r % (b + 1)

\* random.randint(a, b) on the raw outcome r
RandInt(a, b, r) == a + (r % (b - a + 1))

\* The one record a taxi call returns, for the raw outcomes rs.
TaxiRecord(store, rs) ==
  [taxi_colors |-> Choice(store["taxi"].taxi_colors, rs[1]),
   taxi_types |-> Choice(store["taxi"].taxi_types, rs[2]),
   taxi_phone |-> [k \in 1..PhoneLength |-> RandInt(1, 9, rs[k + 2])]]

(***************************************************************************)
(* query: the generic path (lines 31-62).                                  *)
(***************************************************************************)
\* Faulty variant of FoundInit: found = dbs[domain], the store's own list.
FoundInitAliased(domain) == StoreList(domain)

\* found = []: a new list, whatever the domain.
FoundInit(domain) == LocalList(<<>>)

\* Faulty variant of ListAppend: the record is put in front.
ListAppendFront(items, record) == <<record>> \o items

\* Faulty variant of ListAppend: found + [record], the sum thrown away.
ListAppendDropped(items, record) == items

\* list.append
ListAppend(items, record) == Append(items, record)

NoArgs == [domain |-> "", constraints |-> <<>>, ignore_open |-> TRUE]

Init ==
  /\ dbs = LoadedStore
  /\ pc = [c \in Callers |-> "idle"]
  /\ args = [c \in Callers |-> NoArgs]
  /\ found = [c \in Callers |-> LocalList(<<>>)]
  /\ i = [c \in Callers |-> 1]
  /\ j = [c \in Callers |-> 1]
  /\ result = [c \in Callers |-> LocalList(<<>>)]

\* The arguments of a call, as the frame of the call holds them.
Frame(domain, constraints, ignore_open) ==
  [domain |-> domain, constraints |-> constraints, ignore_open |-> ignore_open]

\* query('taxi', constraints, ignore_open)
CallTaxi(c) ==
  /\ pc[c] = "idle"
  /\ \E constraints \in ConstraintLists, ignore_open \in BOOLEAN,
        rs \in RandomStreams :
       /\ result' = [result EXCEPT ![c] = LocalList(<<TaxiRecord(dbs, rs)>>)]
       /\ args' = [args EXCEPT ![c] = Frame("taxi", constraints, ignore_open)]
  /\ pc' = [pc EXCEPT ![c] = "done"]
  /\ UNCHANGED <<dbs, found, i, j>>

\* query('police', ...) and query('hospital', ...): the store's list itself.
CallWhole(c) ==
  /\ pc[c] = "idle"
  /\ \E domain \in WholeDomains, constraints \in ConstraintLists,
        ignore_open \in BOOLEAN :
       /\ result' = [result EXCEPT ![c] = StoreList(domain)]
       /\ args' = [args EXCEPT ![c] = Frame(domain, constraints, ignore_open)]
  /\ pc' = [pc EXCEPT ![c] = "done"]
  /\ UNCHANGED <<dbs, found, i, j>>

\* query of any other domain, up to the first record of the outer loop.
CallGeneric(c) ==
  /\ pc[c] = "idle"
  /\ \E domain \in Domains \ ({"taxi"} \cup WholeDomains),
        constraints \in ConstraintLists, ignore_open \in BOOLEAN :
       /\ found' = [found EXCEPT ![c] = FoundInit(domain)]
       /\ args' = [args EXCEPT ![c] = Frame(domain, constraints, ignore_open)]
  /\ i' = [i EXCEPT ![c] = 1]
  /\ j' = [j EXCEPT ![c] = 1]
  /\ pc' = [pc EXCEPT ![c] = "loop"]
  /\ UNCHANGED <<dbs, result>>

\* Faulty variant of EvalStep: the first constraint that the record passes
\* ends the inner loop with the record kept.
EvalStepFirstPassKeeps(c) ==
  /\ pc[c] = "loop"
  /\ i[c] <= Len(dbs[args[c].domain])
  /\ j[c] <= Len(args[c].constraints)
  /\ LET record == dbs[args[c].domain][i[c]]
         key == args[c].constraints[j[c]][1]
         val == args[c].constraints[j[c]][2]
     IN IF EvalConstraint(record, key, val, args[c].ignore_open) = "break"
        THEN /\ i' = [i EXCEPT ![c] = @ + 1]
             /\ j' = [j EXCEPT ![c] = 1]
        ELSE /\ j' = [j EXCEPT ![c] = Len(args[c].constraints) + 1]
             /\ UNCHANGED i
  /\ UNCHANGED <<dbs, pc, args, found, result>>

\* One pass of the inner loop: constraint j against record i.
EvalStep(c) ==
  /\ pc[c] = "loop"
  /\ i[c] <= Len(dbs[args[c].domain])
  /\ j[c] <= Len(args[c].constraints)
  /\ LET record == dbs[args[c].domain][i[c]]
         key == args[c].constraints[j[c]][1]
         val == args[c].constraints[j[c]][2]
     IN IF EvalConstraint(record, key, val, args[c].ignore_open) = "break"
        THEN /\ i' = [i EXCEPT ![c] = @ + 1]
             /\ j' = [j EXCEPT ![c] = 1]
        ELSE /\ j' = [j EXCEPT ![c] = @ + 1]
             /\ UNCHANGED i
  /\ UNCHANGED <<dbs, pc, args, found, result>>

\* Faulty variant of AppendStep: the position of the outer loop is one
\* module-level variable that every call in progress reads and advances.
AppendStepSharedPosition(c) ==
  /\ pc[c] = "loop"
  /\ i[c] <= Len(dbs[args[c].domain])
  /\ j[c] > Len(args[c].constraints)
  /\ LET record == dbs[args[c].domain][i[c]]
     IN IF found[c].kind = "store"
        THEN /\ dbs' = [dbs EXCEPT ![found[c].dom] = ListAppend(@, record)]
             /\ UNCHANGED found
        ELSE /\ found' = [found EXCEPT
                            ![c] = LocalList(ListAppend(@.items, record))]
             /\ UNCHANGED dbs
  /\ i' = [k \in Callers |-> i[c] + 1]
  /\ j' = [j EXCEPT ![c] = 1]
  /\ UNCHANGED <<pc, args, result>>

\* The else of the inner loop: no constraint dropped record i.
AppendStep(c) ==
  /\ pc[c] = "loop"
  /\ i[c] <= Len(dbs[args[c].domain])
  /\ j[c] > Len(args[c].constraints)
  /\ LET record == dbs[args[c].domain][i[c]]
     IN IF found[c].kind = "store"
        THEN /\ dbs' = [dbs EXCEPT ![found[c].dom] = ListAppend(@, record)]
             /\ UNCHANGED found
        ELSE /\ found' = [found EXCEPT
                            ![c] = LocalList(ListAppend(@.items, record))]
             /\ UNCHANGED dbs
  /\ i' = [i EXCEPT ![c] = @ + 1]
  /\ j' = [j EXCEPT ![c] = 1]
  /\ UNCHANGED <<pc, args, result>>

\* The outer loop is exhausted: return found.
Finish(c) ==
  /\ pc[c] = "loop"
  /\ i[c] > Len(dbs[args[c].domain])
  /\ result' = [result EXCEPT ![c] = found[c]]
  /\ pc' = [pc EXCEPT ![c] = "done"]
  /\ UNCHANGED <<dbs, args, found, i, j>>

\* The caller has the result; its next call starts afresh.
Return(c) ==
  /\ pc[c] = "done"
  /\ pc' = [pc EXCEPT ![c] = "idle"]
  /\ args' = [args EXCEPT ![c] = NoArgs]
  /\ found' = [found EXCEPT ![c] = LocalList(<<>>)]
  /\ i' = [i EXCEPT ![c] = 1]
  /\ j' = [j EXCEPT ![c] = 1]
  /\ result' = [result EXCEPT ![c] = LocalList(<<>>)]
  /\ UNCHANGED dbs

\* A step of caller c.
Step(c) ==
  \/ CallTaxi(c)
  \/ CallWhole(c)
  \/ CallGeneric(c)
  \/ EvalStep(c)
  \/ AppendStep(c)
  \/ Finish(c)
  \/ Return(c)

\* One caller at a time: query is called, runs to its return, and is called
\* again.
Next == \E c \in SeqCallers : Step(c)

Spec == Init /\ [][Next]_vars

(***************************************************************************)
(* Several callers in query at once, on the one loaded store.  No lock is  *)
(* taken anywhere in query, so a step of one call may follow any step of   *)
(* another.  The calls made are a few fixed ones: two train calls and two  *)
(* restaurant calls whose constraint lists are each other's reversal, a    *)
(* police call and a taxi call.                                            *)
(***************************************************************************)
ConcTrainConstraints ==
  <<(<<"leaveAt", "08:30">>), (<<"destination", "cambridge">>)>>

ConcRestaurantConstraints ==
  <<(<<"area", "south">>), (<<"name", "nandos">>)>>

\* The list in reverse order.
Reverse(seq) == [n \in 1..Len(seq) |-> seq[Len(seq) + 1 - n]]

ConcFrames ==
  { Frame("train", ConcTrainConstraints, FALSE),
    Frame("train", Reverse(ConcTrainConstraints), FALSE),
    Frame("restaurant", ConcRestaurantConstraints, TRUE),
    Frame("restaurant", Reverse(ConcRestaurantConstraints), TRUE),
    Frame("police", <<(<<"name", "nandos">>)>>, TRUE),
    Frame("taxi", <<(<<"name", "nandos">>)>>, TRUE) }

\* query('taxi', ...) by one of several callers.
ConcCallTaxi(c) ==
  /\ pc[c] = "idle"
  /\ \E f \in ConcFrames, rs \in RandomStreams :
       /\ f.domain = "taxi"
       /\ result' = [result EXCEPT ![c] = LocalList(<<TaxiRecord(dbs, rs)>>)]
       /\ args' = [args EXCEPT ![c] = f]
  /\ pc' = [pc EXCEPT ![c] = "done"]
  /\ UNCHANGED <<dbs, found, i, j>>

\* query('police', ...) or query('hospital', ...) by one of several callers.
ConcCallWhole(c) ==
  /\ pc[c] = "idle"
  /\ \E f \in ConcFrames :
       /\ f.domain \in WholeDomains
       /\ result' = [result EXCEPT ![c] = StoreList(f.domain)]
       /\ args' = [args EXCEPT ![c] = f]
  /\ pc' = [pc EXCEPT ![c] = "done"]
  /\ UNCHANGED <<dbs, found, i, j>>

\* query of any other domain by one of several callers, up to the first
\* record of the outer loop.
ConcCallGeneric(c) ==
  /\ pc[c] = "idle"
  /\ \E f \in ConcFrames :
       /\ f.domain \notin {"taxi"} \cup WholeDomains
       /\ found' = [found EXCEPT ![c] = FoundInit(f.domain)]
       /\ args' = [args EXCEPT ![c] = f]
  /\ i' = [i EXCEPT ![c] = 1]
  /\ j' = [j EXCEPT ![c] = 1]
  /\ pc' = [pc EXCEPT ![c] = "loop"]
  /\ UNCHANGED <<dbs, result>>

\* A step of caller c among several.
ConcStep(c) ==
  \/ ConcCallTaxi(c)
  \/ ConcCallWhole(c)
  \/ ConcCallGeneric(c)
  \/ EvalStep(c)
  \/ AppendStep(c)
  \/ Finish(c)
  \/ Return(c)

\* Any caller takes the next step.
ConcNext == \E c \in Callers : ConcStep(c)

SpecConc == Init /\ [][ConcNext]_vars

(***************************************************************************)
(* Properties.                                                             *)
(***************************************************************************)
TypeOK ==
  /\ pc \in [Callers -> {"idle", "loop", "done"}]
  /\ \A c \in Callers :
       /\ args[c].constraints \in ConstraintLists
       /\ args[c].ignore_open \in BOOLEAN
       /\ args[c].domain \in Domains \cup {""}
       /\ i[c] \in 1..(Len(LoadedStore["train"]) + 1)
       /\ j[c] \in 1..(MaxConstraints + 1)

\* A call of caller c has returned.
Done(c) == pc[c] = "done"

\* A call of caller c on the generic path has returned.
GenericDone(c) ==
  Done(c) /\ args[c].domain \notin {"taxi", "police", "hospital"}

\* The record passes the constraint: the inner loop goes on after it.
Satisfies(record, constraint, ignore_open) ==
  EvalConstraint(record, constraint[1], constraint[2], ignore_open) = "continue"

\* The records, in their order, that pass every constraint of the list.
Matching(records, constraints, ignore_open) ==
  SelectSeq(records,
            LAMBDA r : \A n \in 1..Len(constraints) :
                         Satisfies(r, constraints[n], ignore_open))

\* The list without its element at position p.
RemoveAt(seq, p) == SubSeq(seq, 1, p - 1) \o SubSeq(seq, p + 1, Len(seq))

\* The record is an element of the sequence.
Among(record, seq) == \E n \in 1..Len(seq) : seq[n] = record

WellFormedTime(s) ==
  /\ Len(s) = 5
  /\ CharAt(s, 3) = ":"
  /\ \A n \in {1, 2, 4, 5} : CharAt(s, n) \in Digits

\* HOUR * 100 + MINUTE of a well-formed time.
HHMM(s) ==
  (DigitVal(CharAt(s, 1)) * 10 + DigitVal(CharAt(s, 2))) * 100
    + DigitVal(CharAt(s, 4)) * 10 + DigitVal(CharAt(s, 5))

\* The record has the field, with a string for its value.
HasString(record, field) ==
  field \in DOMAIN record /\ record[field].type = "str"

\* The record has the field, with a well-formed time for its value.
HasTime(record, field) ==
  HasString(record, field) /\ WellFormedTime(record[field].val)

\* C2: on the generic path, a constraint (leaveAt, v) with v a well-formed
\* time keeps, among the records with a well-formed leaveAt that pass the
\* other constraints, exactly those whose HOUR*100+MINUTE is greater than or
\* equal to that of v.
C2_LeaveAtNoEarlier ==
  \A c \in Callers :
    GenericDone(c) =>
      \A p \in 1..Len(args[c].constraints) :
        LET key == args[c].constraints[p][1]
            val == args[c].constraints[p][2]
            others == Matching(dbs[args[c].domain],
                               RemoveAt(args[c].constraints, p),
                               args[c].ignore_open)
        IN (key = "leaveAt" /\ WellFormedTime(val)) =>
             SelectSeq(Items(result[c]), LAMBDA r : HasTime(r, "leaveAt"))
               = SelectSeq(others,
                           LAMBDA r : /\ HasTime(r, "leaveAt")
                                      /\ HHMM(r["leaveAt"].val) >= HHMM(val))

\* The example of the claim: with (leaveAt, 08:30) alone the record leaving at
\* 09:30 is returned and the record leaving at 08:00 is not.
C2_Witness ==
  \E c \in Callers :
    /\ GenericDone(c)
    /\ args[c].domain = "train"
    /\ args[c].constraints = << <<"leaveAt", "08:30">> >>
    /\ \E r \in {TrainRecords[n] : n \in 1..Len(TrainRecords)} :
         r["leaveAt"].val = "09:30" /\ Among(r, Items(result[c]))
    /\ \E r \in {TrainRecords[n] : n \in 1..Len(TrainRecords)} :
         r["leaveAt"].val = "08:00" /\ ~Among(r, Items(result[c]))

\* C3: on the generic path, a constraint (arriveBy, v) with v a well-formed
\* time drops, among the records with a well-formed arriveBy that pass the
\* other constraints, exactly those whose HOUR*100+MINUTE strictly exceeds
\* that of v; a record arriving exactly at v is kept.
C3_ArriveByNoLater ==
  \A c \in Callers :
    GenericDone(c) =>
      \A p \in 1..Len(args[c].constraints) :
        LET key == args[c].constraints[p][1]
            val == args[c].constraints[p][2]
            others == Matching(dbs[args[c].domain],
                               RemoveAt(args[c].constraints, p),
                               args[c].ignore_open)
        IN (key = "arriveBy" /\ WellFormedTime(val)) =>
             SelectSeq(Items(result[c]), LAMBDA r : HasTime(r, "arriveBy"))
               = SelectSeq(others,
                           LAMBDA r : /\ HasTime(r, "arriveBy")
                                      /\ ~(HHMM(r["arriveBy"].val) > HHMM(val)))

\* With (arriveBy, 09:00) alone the record arriving at 09:00 is returned and
\* the record arriving at 10:05 is not.
C3_Witness ==
  \E c \in Callers :
    /\ GenericDone(c)
    /\ args[c].domain = "train"
    /\ args[c].constraints = << <<"arriveBy", "09:00">> >>
    /\ \E r \in {TrainRecords[n] : n \in 1..Len(TrainRecords)} :
         /\ HasTime(r, "arriveBy")
         /\ r["arriveBy"].val = "09:00"
         /\ Among(r, Items(result[c]))
    /\ \E r \in {TrainRecords[n] : n \in 1..Len(TrainRecords)} :
         /\ HasTime(r, "arriveBy")
         /\ r["arriveBy"].val = "10:05"
         /\ ~Among(r, Items(result[c]))

\* The effect of a destination or departure constraint at position p of a
\* generic call of caller c: none with ignore_open; without it, among the
\* records that have the field and pass the other constraints, exactly those
\* are kept whose value equals the constraint's after trimming.
OpenFieldRule(c, p) ==
  LET key == args[c].constraints[p][1]
      val == args[c].constraints[p][2]
      others == Matching(dbs[args[c].domain],
                         RemoveAt(args[c].constraints, p),
                         args[c].ignore_open)
  IN IF args[c].ignore_open
     THEN Items(result[c]) = others
     ELSE SelectSeq(Items(result[c]), LAMBDA r : HasString(r, key))
            = SelectSeq(others,
                        LAMBDA r : /\ HasString(r, key)
                                   /\ Strip(val) = Strip(r[key].val))

\* C4 as claimed: the rule holds for every destination or departure
\* constraint, whatever its value.
C4_AsClaimed ==
  \A c \in Callers :
    GenericDone(c) =>
      \A p \in 1..Len(args[c].constraints) :
        args[c].constraints[p][1] \in {"destination", "departure"} =>
          OpenFieldRule(c, p)

\* C4, amended: with ignore_open a destination or departure constraint never
\* drops a record, whatever its value; without ignore_open, and for a value
\* that is not a don't-care token, a record that has the field passes the
\* constraint iff the two values are equal after trimming, case-sensitively.
C4_OpenFields ==
  \A c \in Callers :
    GenericDone(c) =>
      \A p \in 1..Len(args[c].constraints) :
        ( /\ args[c].constraints[p][1] \in {"destination", "departure"}
          /\ \/ args[c].ignore_open
             \/ args[c].constraints[p][2] \notin
                  {"", "dont care", "not mentioned", "don't care",
                   "dontcare", "do n't care"} ) =>
          OpenFieldRule(c, p)

\* Without ignore_open, (destination, cambridge) alone keeps the trains to
\* "cambridge" and to "cambridge " and drops those to "Cambridge" and "ely".
C4_Witness ==
  \E c \in Callers :
    /\ GenericDone(c)
    /\ args[c].domain = "train"
    /\ ~args[c].ignore_open
    /\ args[c].constraints = << <<"destination", "cambridge">> >>
    /\ Items(result[c]) = <<TrainRecords[1], TrainRecords[2]>>

\* With ignore_open, (departure, " ely") alone keeps every train, the one
\* departing from cambridge too.
C4_WitnessIgnored ==
  \E c \in Callers :
    /\ GenericDone(c)
    /\ args[c].domain = "train"
    /\ args[c].ignore_open
    /\ args[c].constraints = << <<"departure", " ely">> >>
    /\ Items(result[c]) = TrainRecords

\* What a call that is not a taxi call returns for the arguments, by C1 and
\* C6: the whole collection for police and hospital, else the matching
\* records.
Expected(domain, constraints, ignore_open) ==
  IF domain \in {"police", "hospital"} THEN dbs[domain]
  ELSE Matching(dbs[domain], constraints, ignore_open)

C6_WholeCollection ==
  \A c \in Callers :
    (Done(c) /\ args[c].domain \in {"police", "hospital"}) =>
      /\ Items(result[c]) = LoadedStore[args[c].domain]
      /\ Items(result[c]) = dbs[args[c].domain]

\* A police call whose constraint (name, nandos) no police record passes on
\* the generic path, ignore_open off, returns the police records.
C6_Witness ==
  \E c \in Callers :
    /\ Done(c)
    /\ args[c].domain = "police"
    /\ ~args[c].ignore_open
    /\ \E p \in 1..Len(args[c].constraints) :
         /\ args[c].constraints[p] = <<"name", "nandos">>
         /\ Matching(PoliceRecords, args[c].constraints, FALSE) = <<>>
    /\ Items(result[c]) = PoliceRecords

\* The elements of a sequence.
Range(seq) == {seq[n] : n \in 1..Len(seq)}

\* C7: a taxi call returns exactly one record: a stored colour, a stored
\* type, and a phone of exactly 10 elements, each in 1..9.
C7_TaxiRecord ==
  \A c \in Callers :
    (Done(c) /\ args[c].domain = "taxi") =>
      /\ Len(Items(result[c])) = 1
      /\ LET taxi == Items(result[c])[1]
         IN /\ DOMAIN taxi = {"taxi_colors", "taxi_types", "taxi_phone"}
            /\ taxi.taxi_colors \in Range(LoadedStore["taxi"].taxi_colors)
            /\ taxi.taxi_types \in Range(LoadedStore["taxi"].taxi_types)
            /\ DOMAIN taxi.taxi_phone = 1..10
            /\ \A k \in 1..10 : taxi.taxi_phone[k] \in 1..9

\* A taxi call with constraints whose phone holds both ends of the range.
C7_Witness ==
  \E c \in Callers :
    /\ Done(c)
    /\ args[c].domain = "taxi"
    /\ args[c].constraints # <<>>
    /\ \E k \in 1..10 : Items(result[c])[1].taxi_phone[k] = 1
    /\ \E k \in 1..10 : Items(result[c])[1].taxi_phone[k] = 9

\* C8: on the generic path an empty constraint list returns the whole
\* collection of the domain, each record once, in the order of the store.
C8_EmptyConstraints ==
  \A c \in Callers :
    (GenericDone(c) /\ args[c].constraints = <<>>) =>
      /\ Items(result[c]) = LoadedStore[args[c].domain]
      /\ Items(result[c]) = dbs[args[c].domain]

\* The trains, all four, returned for no constraint and ignore_open off.
C8_Witness ==
  \E c \in Callers :
    /\ GenericDone(c)
    /\ args[c].domain = "train"
    /\ args[c].constraints = <<>>
    /\ ~args[c].ignore_open
    /\ Len(Items(result[c])) = Len(TrainRecords)

\* C9: a constraint whose key differs only in letter case from a field name
\* of the record is compared with that field: the record is dropped when the
\* field's value differs, after trimming, from the constraint's.
C9_CaseInsensitiveLookup ==
  \A c \in Callers :
    GenericDone(c) =>
      \A p \in 1..Len(args[c].constraints) :
        \A n \in 1..Len(dbs[args[c].domain]) :
          LET key == args[c].constraints[p][1]
              val == args[c].constraints[p][2]
              record == dbs[args[c].domain][n]
          IN ( /\ val \notin {"", "dont care", "not mentioned", "don't care",
                             "dontcare", "do n't care"}
               /\ \E f \in DOMAIN record :
                    /\ f # key
                    /\ LowerOf(f) = LowerOf(key)
                    /\ f \notin {"leaveAt", "arriveBy", "destination",
                                 "departure"}
                    /\ record[f].type = "str"
                    /\ Strip(record[f].val) # Strip(val) ) =>
               ~Among(record, Items(result[c]))

\* C10: query leaves the store as it was loaded, whatever calls were made.
C10_StoreUnchanged == dbs = LoadedStore

\* A generic call has appended records to its result, another way of saying
\* that the call went through every step that writes to a list.
C10_Witness ==
  \E c \in Callers :
    /\ GenericDone(c)
    /\ Len(Items(result[c])) = Len(dbs[args[c].domain])
    /\ Len(args[c].constraints) = MaxConstraints
    /\ dbs = LoadedStore

\* What a call returns when no other call is in progress (C1, C6): the whole
\* collection for police and hospital, the matching records otherwise, both
\* of the store as loaded.
RunAlone(frame) ==
  IF frame.domain \in {"police", "hospital"}
  THEN LoadedStore[frame.domain]
  ELSE Matching(LoadedStore[frame.domain], frame.constraints,
                frame.ignore_open)

\* C11: with several callers in query at once and their steps interleaved in
\* any way, every call of a domain other than taxi returns what the same call
\* returns when it runs alone.
C11_ConcurrentCallsIndependent ==
  \A c \in Callers :
    (Done(c) /\ args[c].domain # "taxi") =>
      Items(result[c]) = RunAlone(args[c])

\* One call has returned some but not all trains while another call of the
\* same domain, begun before the first returned, is past its first record.
C11_Witness ==
  \E c \in Callers, d \in Callers :
    /\ c # d
    /\ GenericDone(c)
    /\ Items(result[c]) # <<>>
    /\ Len(Items(result[c])) < Len(dbs[args[c].domain])
    /\ pc[d] = "loop"
    /\ args[d].domain = args[c].domain
    /\ args[d].constraints # args[c].constraints
    /\ i[d] > 1
    /\ i[d] <= Len(dbs[args[d].domain])
    /\ found[d].items # <<>>

\* The values of a constraint that stand for "no constraint".
WildcardValues ==
  {"", "dont care", "not mentioned", "don't care", "dontcare", "do n't care"}

\* No field name of the record equals the key when both are lower-cased, and
\* none equals the stem of the key.
NoSuchField(record, key) ==
  LET names == {LowerOf(f) : f \in DOMAIN record}
  IN LowerOf(key) \notin names /\ StemOf(key) \notin names

\* The string does not read as hours and minutes around a colon.
NotATime(s) == ~TimeCode(s).ok

\* For a leaveAt or arriveBy constraint on a record with that field: the
\* constraint's value or the record's value is not a time.
MalformedTime(record, key, val) ==
  /\ key \in {"leaveAt", "arriveBy"}
  /\ key \in DOMAIN record
  /\ \/ NotATime(val)
     \/ record[key].type = "str" /\ NotATime(record[key].val)

\* The record's value under the key is a list, a dictionary or a number.
NonStringField(record, key) ==
  key \in DOMAIN record /\ record[key].type # "str"

\* The evaluation of the constraint on the record hits a tolerated condition.
Tolerated(record, key, val) ==
  /\ val \notin WildcardValues
  /\ \/ NonStringField(record, key)
     \/ MalformedTime(record, key, val)
     \/ NoSuchField(record, key)

\* The record passes every constraint of the list but perhaps the p-th.
PassesOthers(record, constraints, p, ignore_open) ==
  \A q \in 1..Len(constraints) :
    q # p => Satisfies(record, constraints[q], ignore_open)

\* C12: on the generic path a constraint whose evaluation hits a tolerated
\* condition (unknown key, unparseable time, non-string record value) counts
\* as satisfied and never excludes the record; the call returns, and the
\* record is in the result exactly when the other constraints accept it.
C12_ToleratedNeverExcludes ==
  \A c \in Callers :
    GenericDone(c) =>
      \A p \in 1..Len(args[c].constraints) :
        \A n \in 1..Len(dbs[args[c].domain]) :
          LET key == args[c].constraints[p][1]
              val == args[c].constraints[p][2]
              record == dbs[args[c].domain][n]
          IN Tolerated(record, key, val) =>
               /\ Satisfies(record, args[c].constraints[p],
                            args[c].ignore_open)
               /\ Among(record, Items(result[c])) <=>
                    PassesOthers(record, args[c].constraints, p,
                                 args[c].ignore_open)

\* A returned train call with ignore_open off whose first constraint is a
\* leaveAt that is not a time and whose second constraint keeps some trains
\* and drops others.
C12_Witness ==
  \E c \in Callers :
    /\ GenericDone(c)
    /\ ~args[c].ignore_open
    /\ Len(args[c].constraints) = 2
    /\ \A n \in 1..Len(dbs[args[c].domain]) :
         MalformedTime(dbs[args[c].domain][n], args[c].constraints[1][1],
                       args[c].constraints[1][2])
    /\ args[c].constraints[2][1] = "destination"
    /\ Items(result[c]) # <<>>
    /\ Len(Items(result[c])) < Len(dbs[args[c].domain])

\* A returned call with a constraint on a key that a kept record does not
\* have, by any spelling, and another constraint that drops some record.
C12_WitnessNoSuchField ==
  \E c \in Callers :
    /\ GenericDone(c)
    /\ Len(args[c].constraints) = 2
    /\ args[c].constraints[1][2] \notin WildcardValues
    /\ \E n \in 1..Len(dbs[args[c].domain]) :
         /\ NoSuchField(dbs[args[c].domain][n], args[c].constraints[1][1])
         /\ Among(dbs[args[c].domain][n], Items(result[c]))
    /\ Len(Items(result[c])) < Len(dbs[args[c].domain])

\* A returned call with a constraint on a field that holds a list in a kept
\* record, and another constraint that drops some record.
C12_WitnessNonString ==
  \E c \in Callers :
    /\ GenericDone(c)
    /\ Len(args[c].constraints) = 2
    /\ args[c].constraints[1][2] \notin WildcardValues
    /\ \E n \in 1..Len(dbs[args[c].domain]) :
         /\ NonStringField(dbs[args[c].domain][n], args[c].constraints[1][1])
         /\ Among(dbs[args[c].domain][n], Items(result[c]))
    /\ Len(Items(result[c])) < Len(dbs[args[c].domain])

\* C13: on the generic path, when no field name of the record equals the
\* constraint key case-insensitively but a lowered field name equals the stem
\* of the key, the constraint is compared against that field: a record whose
\* value there differs, after trimming, from the constraint's value is not
\* in the result.
C13_StemFallbackFilters ==
  \A c \in Callers :
    GenericDone(c) =>
      \A p \in 1..Len(args[c].constraints) :
        \A n \in 1..Len(dbs[args[c].domain]) :
          LET key == args[c].constraints[p][1]
              val == args[c].constraints[p][2]
              record == dbs[args[c].domain][n]
          IN ( /\ val \notin WildcardValues
               /\ key \notin {"leaveAt", "arriveBy", "destination",
                              "departure"}
               /\ \A f \in DOMAIN record : LowerOf(f) # LowerOf(key)
               /\ \E f \in DOMAIN record :
                    /\ LowerOf(f) = StemOf(key)
                    /\ record[f].type = "str"
                    /\ Strip(record[f].val) # Strip(val) ) =>
               ~Among(record, Items(result[c]))

\* The second list holds the elements of the first in some order.
IsPermutation(s, t) ==
  /\ Len(s) = Len(t)
  /\ \E f \in [1..Len(s) -> 1..Len(s)] :
       /\ \A m, n \in 1..Len(s) : f[m] = f[n] => m = n
       /\ \A n \in 1..Len(s) : t[n] = s[f[n]]

\* C14: for a domain other than taxi, two calls with the same ignore_open
\* whose constraint lists are permutations of each other return the same
\* sequence of records.
C14_ConstraintOrderIrrelevant ==
  \A c \in Callers, d \in Callers :
    ( /\ Done(c) /\ Done(d)
      /\ args[c].domain # "taxi"
      /\ args[d].domain = args[c].domain
      /\ args[d].ignore_open = args[c].ignore_open
      /\ IsPermutation(args[c].constraints, args[d].constraints) ) =>
      Items(result[c]) = Items(result[d])

\* Two returned calls of one generic domain whose constraint lists differ
\* only in their order, each having kept some records and dropped others.
C14_Witness ==
  \E c \in Callers, d \in Callers :
    /\ GenericDone(c) /\ GenericDone(d)
    /\ args[d].domain = args[c].domain
    /\ args[d].ignore_open = args[c].ignore_open
    /\ args[d].constraints # args[c].constraints
    /\ IsPermutation(args[c].constraints, args[d].constraints)
    /\ Items(result[c]) # <<>>
    /\ Len(Items(result[c])) < Len(dbs[args[c].domain])
    /\ Items(result[d]) = Items(result[c])

====
